---------------------------- MODULE Spec2Model ----------------------------
(***************************************************************************)
(* StorageLess (src/app.ts): two storage backends (CookieStorage on        *)
(* document.cookie, UriStorage on window.location.hash) behind the         *)
(* aggregator StorageModule.                                               *)
(*                                                                         *)
(* A JavaScript string is a sequence of one-character strings.  A          *)
(* JavaScript value is a tagged tuple:                                     *)
(*   <<"null">>  <<"bool", b>>  <<"num", n>>  <<"str", chars>>             *)
(*   <<"arr", sequence of values>>  <<"obj", function from key to value>>  *)
(* The outcome of evaluating an expression is [st |-> "ok", v |-> value]   *)
(* or [st |-> "throw", v |-> <<"null">>] (an exception on its way up).     *)
(***************************************************************************)
EXTENDS Integers, Sequences, FiniteSets, TLC

---------------------------------------------------------------------------
(* JavaScript values and outcomes                                          *)

JNull == <<"null">>

JUndefined == <<"undefined">>

JBool(b) == <<"bool", b>>

JNum(n) == <<"num", n>>

JStr(s) == <<"str", s>>

JArr(a) == <<"arr", a>>

JObj(f) == <<"obj", f>>

Ok(v) == [st |-> "ok", v |-> v]

Throw == [st |-> "throw", v |-> JNull]

\* ToBoolean, as applied by x ? a : b and if (x).
Truthy(v) ==
    CASE v[1] = "null" -> FALSE
      [] v[1] = "undefined" -> FALSE
      [] v[1] = "bool" -> v[2]
      [] v[1] = "num"  -> v[2] # 0
      [] v[1] = "str"  -> v[2] # <<>>
      [] OTHER         -> TRUE

---------------------------------------------------------------------------
(* String primitives                                                       *)

\* Operators that look at their text position by position first bind it
\* to its value (v \in {text}), so the text is computed once.

\* String.prototype.startsWith
StartsWith(text, prefix) ==
    \E s \in {text}, p \in {prefix} :
        /\ Len(p) =< Len(s)
        /\ \A i \in 1..Len(p) : s[i] = p[i]

\* Does sep occur in s at position i?
MatchAt(s, i, sep) ==
    /\ i + Len(sep) - 1 =< Len(s)
    /\ \A k \in 1..Len(sep) : s[i + k - 1] = sep[k]

\* String.prototype.includes
Includes(text, sep) == \E s \in {text} : \E i \in 1..Len(s) : MatchAt(s, i, sep)

RECURSIVE FlattenRange(_, _, _)
\* The concatenation of pieces[lo], ..., pieces[hi].
FlattenRange(pieces, lo, hi) ==
    IF lo > hi THEN <<>>
    ELSE IF lo = hi THEN pieces[lo]
    ELSE LET mid == (lo + hi) \div 2
         IN  FlattenRange(pieces, lo, mid) \o FlattenRange(pieces, mid + 1, hi)

\* The concatenation of a sequence of strings.
Flatten(pieces) ==
    CHOOSE r \in {FlattenRange(ps, 1, Len(ps)) : ps \in {pieces}} : TRUE

RECURSIVE SplitFrom(_, _, _, _)
\* The pieces of s from position i on; at holds the positions where sep
\* occurs (the separators in use cannot overlap themselves).
SplitFrom(s, sep, i, at) ==
    LET ahead == {p \in at : p >= i}
        p     == CHOOSE q \in ahead : \A r \in ahead : q =< r
    IN  IF ahead = {} THEN <<SubSeq(s, i, Len(s))>>
        ELSE <<SubSeq(s, i, p - 1)>> \o SplitFrom(s, sep, p + Len(sep), at)

\* String.prototype.split with a non-empty separator: never an empty array.
Split(text, sep) ==
    CHOOSE r \in { SplitFrom(s, sep, 1, {i \in 1..Len(s) : MatchAt(s, i, sep)}) :
                   s \in {text} } : TRUE

\* Array.prototype.join
Join(rows, sep) ==
    CHOOSE r \in { Flatten([i \in 1..Len(rs) |-> IF i = 1 THEN rs[i] ELSE sep \o rs[i]]) :
                   rs \in {rows} } : TRUE

\* Array.prototype.find on strings: the first row satisfying Test, else undefined.
\* found |-> FALSE stands for undefined.
Find(rows, Test(_)) ==
    CHOOSE r \in {
        IF \E i \in 1..Len(rs) : Test(rs[i])
        THEN LET i == CHOOSE k \in 1..Len(rs) :
                          Test(rs[k]) /\ \A j \in 1..(k - 1) : ~Test(rs[j])
             IN  [found |-> TRUE, row |-> rs[i]]
        ELSE [found |-> FALSE, row |-> <<>>] : rs \in {rows} } : TRUE

\* row.split('=')[1] passed to decodeURIComponent: the second piece, or the
\* text "undefined" when there is none (ToString(undefined)).
SecondPiece(row) ==
    LET pieces == Split(row, <<"=">>)
    IN  IF Len(pieces) >= 2 THEN pieces[2]
        ELSE <<"u", "n", "d", "e", "f", "i", "n", "e", "d">>

---------------------------------------------------------------------------
(* encodeURIComponent / decodeURIComponent                                 *)

\* Characters encodeURIComponent leaves alone, restricted to those in use.
Unreserved ==
    {"a", "b", "c", "d", "e", "f", "g", "h", "i", "l", "m", "n", "o", "p",
     "r", "s", "t", "u", "v", "x", "0", "1", "2", "3", "4", "5", "6", "7",
     "8", "9", "-", "_", ".", "!", "~", "*", "'", "(", ")"}

\* The escaped characters in use and their UTF-8 byte in upper-case hex.
Escapes ==
    { <<"{", "7", "B">>, <<"}", "7", "D">>, <<"\"", "2", "2">>,
      <<":", "3", "A">>, <<",", "2", "C">>, <<"[", "5", "B">>,
      <<"]", "5", "D">>, <<"\\", "5", "C">>, <<"=", "3", "D">>,
      <<";", "3", "B">>, <<"&", "2", "6">>, <<" ", "2", "0">>,
      <<"%", "2", "5">>, <<"#", "2", "3">>, <<"<", "3", "C">>,
      <<">", "3", "E">> }

EncodeChar(c) ==
    IF c \in Unreserved THEN <<c>>
    ELSE LET e == CHOOSE x \in Escapes : x[1] = c
         IN  <<"%", e[2], e[3]>>

encodeURIComponent(text) ==
    CHOOSE r \in { Flatten([i \in 1..Len(s) |-> EncodeChar(s[i])]) : s \in {text} } : TRUE

\* Is the '%' at position i followed by the two hex digits of a character?
\* (Hex digits are not '%', so every '%' starts an escape of its own.)
EscapeAt(s, i) ==
    /\ i + 2 =< Len(s)
    /\ \E x \in Escapes : x[2] = s[i + 1] /\ x[3] = s[i + 2]

\* What position i of a well-escaped s contributes to the decoded text.
DecodeAt(s, i) ==
    IF s[i] = "%"
    THEN <<(CHOOSE x \in Escapes : x[2] = s[i + 1] /\ x[3] = s[i + 2])[1]>>
    ELSE IF (i > 1 /\ s[i - 1] = "%") \/ (i > 2 /\ s[i - 2] = "%") THEN <<>>
    ELSE <<s[i]>>

\* decodeURIComponent: a '%' not followed by the two hex digits of a
\* character raises URIError.
decodeURIComponent(text) ==
    CHOOSE r \in {
        IF \E i \in 1..Len(s) : s[i] = "%" /\ ~EscapeAt(s, i) THEN Throw
        ELSE Ok(Flatten([i \in 1..Len(s) |-> DecodeAt(s, i)])) : s \in {text} } : TRUE

---------------------------------------------------------------------------
(* Project, Version and JSON.stringify                                     *)

\* new Version(hash, timestamp)
Version(hash, timestamp) == [hash |-> hash, timestamp |-> timestamp]

\* new Project(id, data, versions)
Project(id, data, versions) == [id |-> id, data |-> data, versions |-> versions]

KId == <<"i", "d">>

KData == <<"d", "a", "t", "a">>

KVersions == <<"v", "e", "r", "s", "i", "o", "n", "s">>

KHash == <<"h", "a", "s", "h">>

KTimestamp == <<"t", "i", "m", "e", "s", "t", "a", "m", "p">>

\* A Version as a JavaScript value (an object with its two fields).
VersionValue(v) ==
    JObj([k \in {KHash, KTimestamp} |->
            IF k = KHash THEN JStr(v.hash) ELSE JNum(v.timestamp)])

\* A Project as a JavaScript value: what a deep comparison looks at.
ProjectValue(p) ==
    JObj([k \in {KId, KData, KVersions} |->
            IF k = KId THEN JStr(p.id)
            ELSE IF k = KData THEN JStr(p.data)
            ELSE JArr([n \in 1..Len(p.versions) |-> VersionValue(p.versions[n])])])

DigitChars == <<"0", "1", "2", "3", "4", "5", "6", "7", "8", "9">>

RECURSIVE NumberToString(_)
\* JSON.stringify of a non-negative integer: its decimal digits.
NumberToString(n) ==
    IF n < 10 THEN <<DigitChars[n + 1]>>
    ELSE Append(NumberToString(n \div 10), DigitChars[(n % 10) + 1])

QuoteBody(text) ==
    CHOOSE r \in {
        Flatten([i \in 1..Len(s) |->
                    IF s[i] \in {"\"", "\\"} THEN <<"\\", s[i]>> ELSE <<s[i]>>]) :
        s \in {text} } : TRUE

\* JSON.stringify of a string: quoted, with '"' and '\' escaped.
Quote(s) == <<"\"">> \o QuoteBody(s) \o <<"\"">>

StringifyVersion(v) ==
    <<"{">> \o Quote(KHash) \o <<":">> \o Quote(v.hash) \o <<",">>
            \o Quote(KTimestamp) \o <<":">> \o NumberToString(v.timestamp) \o <<"}">>

StringifyVersions(vs) ==
    Join([i \in 1..Len(vs) |-> StringifyVersion(vs[i])], <<",">>)

\* JSON.stringify(project): the own fields in the constructor's order.
JSONstringify(p) ==
    <<"{">> \o Quote(KId) \o <<":">> \o Quote(p.id) \o <<",">>
            \o Quote(KData) \o <<":">> \o Quote(p.data) \o <<",">>
            \o Quote(KVersions) \o <<":">> \o <<"[">> \o StringifyVersions(p.versions)
            \o <<"]">> \o <<"}">>

---------------------------------------------------------------------------
(* JSON.parse: objects, arrays, strings, non-negative integers, literals   *)

PFail == [ok |-> FALSE, v |-> JNull, i |-> 0]

POk(v, i) == [ok |-> TRUE, v |-> v, i |-> i]

\* The character at position i, "" past the end.
At(s, i) == IF i >= 1 /\ i =< Len(s) THEN s[i] ELSE ""

RECURSIVE SkipWs(_, _)
SkipWs(s, i) == IF At(s, i) = " " THEN SkipWs(s, i + 1) ELSE i

RECURSIVE StringBody(_, _, _)
\* After the opening quote: up to the closing one.
StringBody(s, i, acc) ==
    IF i > Len(s) THEN PFail
    ELSE IF s[i] = "\"" THEN POk(JStr(acc), i + 1)
    ELSE IF s[i] = "\\"
         THEN IF At(s, i + 1) \in {"\"", "\\", "/"}
              THEN StringBody(s, i + 2, Append(acc, s[i + 1]))
              ELSE PFail
    ELSE StringBody(s, i + 1, Append(acc, s[i]))

DigitValue(c) == CHOOSE d \in 0..9 : DigitChars[d + 1] = c

IsDigit(c) == \E d \in 1..10 : DigitChars[d] = c

RECURSIVE NumberBody(_, _, _)
NumberBody(s, i, acc) ==
    IF IsDigit(At(s, i)) THEN NumberBody(s, i + 1, acc * 10 + DigitValue(s[i]))
    ELSE POk(JNum(acc), i)

\* A number: "0" alone or a digit 1..9 followed by digits.
ParseNumber(s, i) ==
    IF s[i] = "0" THEN POk(JNum(0), i + 1) ELSE NumberBody(s, i, 0)

RECURSIVE ParseValue(_, _)
RECURSIVE ParseElements(_, _, _)
RECURSIVE ParseMembers(_, _, _)

\* The elements of an array from position i on, acc parsed so far.
ParseElements(s, i, acc) ==
    LET r == ParseValue(s, i)
        k == SkipWs(s, r.i)
    IN  IF ~r.ok THEN PFail
        ELSE IF At(s, k) = "," THEN ParseElements(s, k + 1, Append(acc, r.v))
        ELSE IF At(s, k) = "]" THEN POk(JArr(Append(acc, r.v)), k + 1)
        ELSE PFail

\* The members of an object from position i on; a repeated key keeps its
\* last value.
ParseMembers(s, i, acc) ==
    LET j   == SkipWs(s, i)
        key == StringBody(s, j + 1, <<>>)
        k   == SkipWs(s, key.i)
        val == ParseValue(s, k + 1)
        m   == SkipWs(s, val.i)
        new == (key.v[2] :> val.v) @@ acc
    IN  IF At(s, j) # "\"" \/ ~key.ok THEN PFail
        ELSE IF At(s, k) # ":" \/ ~val.ok THEN PFail
        ELSE IF At(s, m) = "," THEN ParseMembers(s, m + 1, new)
        ELSE IF At(s, m) = "}" THEN POk(JObj(new), m + 1)
        ELSE PFail

ParseValue(s, i) ==
    LET j == SkipWs(s, i)
        c == At(s, j)
    IN  IF c = "\"" THEN StringBody(s, j + 1, <<>>)
        ELSE IF c = "{"
             THEN IF At(s, SkipWs(s, j + 1)) = "}"
                  THEN POk(JObj(<<>>), SkipWs(s, j + 1) + 1)
                  ELSE ParseMembers(s, j + 1, <<>>)
        ELSE IF c = "["
             THEN IF At(s, SkipWs(s, j + 1)) = "]"
                  THEN POk(JArr(<<>>), SkipWs(s, j + 1) + 1)
                  ELSE ParseElements(s, j + 1, <<>>)
        ELSE IF IsDigit(c) THEN ParseNumber(s, j)
        ELSE IF MatchAt(s, j, <<"n", "u", "l", "l">>) THEN POk(JNull, j + 4)
        ELSE IF MatchAt(s, j, <<"t", "r", "u", "e">>) THEN POk(JBool(TRUE), j + 4)
        ELSE IF MatchAt(s, j, <<"f", "a", "l", "s", "e">>) THEN POk(JBool(FALSE), j + 5)
        ELSE PFail

\* JSON.parse(text): the value, or SyntaxError.
JSONparse(text) ==
    CHOOSE o \in {
        LET r == ParseValue(s, 1)
        IN  IF r.ok /\ SkipWs(s, r.i) > Len(s) THEN Ok(r.v) ELSE Throw :
        s \in {text} } : TRUE

---------------------------------------------------------------------------
(* The two media, as the browser keeps them                                *)
(*                                                                         *)
(* The cookie jar is a sequence of [name, value] in creation order; the    *)
(* fragment is the text after '#' in the URL.                              *)

RECURSIVE TrimLeft(_)
TrimLeft(s) == IF s # <<>> /\ Head(s) = " " THEN TrimLeft(Tail(s)) ELSE s

RECURSIVE TrimRight(_)
TrimRight(s) ==
    IF s # <<>> /\ s[Len(s)] = " " THEN TrimRight(SubSeq(s, 1, Len(s) - 1)) ELSE s

Trim(s) == TrimRight(TrimLeft(s))

\* The position of the first c in s, 0 when there is none.
IndexOf(text, c) ==
    CHOOSE r \in {
        IF \E i \in 1..Len(s) : s[i] = c
        THEN CHOOSE i \in 1..Len(s) : s[i] = c /\ \A j \in 1..(i - 1) : s[j] # c
        ELSE 0 : s \in {text} } : TRUE

\* The jar after document.cookie = text: the text up to the first ';' is
\* one name=value pair, split at its first '=' and trimmed; it replaces the
\* cookie of that name where it stands, or is added last.
SetCookieValue(jar, text) ==
    LET semi  == IndexOf(text, ";")
        pair  == IF semi = 0 THEN text ELSE SubSeq(text, 1, semi - 1)
        eq    == IndexOf(pair, "=")
        name  == IF eq = 0 THEN <<>> ELSE Trim(SubSeq(pair, 1, eq - 1))
        value == IF eq = 0 THEN Trim(pair) ELSE Trim(SubSeq(pair, eq + 1, Len(pair)))
        entry == [name |-> name, value |-> value]
    IN  IF name = <<>> /\ value = <<>> THEN jar
        ELSE IF \E i \in 1..Len(jar) : jar[i].name = name
        THEN [i \in 1..Len(jar) |-> IF jar[i].name = name THEN entry ELSE jar[i]]
        ELSE Append(jar, entry)

\* The assignment document.cookie = text.
SetCookie(jar0, text0) ==
    CHOOSE r \in { SetCookieValue(jar, text) : jar \in {jar0}, text \in {text0} } : TRUE

\* The text of one cookie in the value of document.cookie.
CookieRow(c) == IF c.name = <<>> THEN c.value ELSE c.name \o <<"=">> \o c.value

\* Reading document.cookie: the cookies joined by "; ".
GetCookie(jar) == Join([i \in 1..Len(jar) |-> CookieRow(jar[i])], <<";", " ">>)

\* The URL parser's fragment percent-encoding (space, '"', '<', '>').
FragmentEncode(text) ==
    CHOOSE r \in {
        Flatten([i \in 1..Len(s) |->
                    IF s[i] \in {" ", "\"", "<", ">"} THEN EncodeChar(s[i]) ELSE <<s[i]>>]) :
        s \in {text} } : TRUE

\* The assignment window.location.hash = text: the new fragment.
SetHash(text) ==
    FragmentEncode(IF text # <<>> /\ Head(text) = "#" THEN Tail(text) ELSE text)

\* Reading window.location.hash: '#' and the fragment, or "" without one.
GetHash(frag) == IF frag = <<>> THEN <<>> ELSE <<"#">> \o frag

\* String.prototype.substr(1)
Substr1(s) == IF s = <<>> THEN <<>> ELSE Tail(s)

---------------------------------------------------------------------------
(* The argument of save and saveProject                                    *)
(*   kind "project": a Project with string id, string data and Versions;   *)
(*   kind "cyclic":  a Project whose versions refer back to it, on which   *)
(*                   JSON.stringify raises TypeError;                      *)
(*   kind "null":    null, on which reading .id raises TypeError.          *)

Arg(kind, p) == [kind |-> kind, p |-> p]

\* The template literal of save: id, '=', the encoded JSON text.
Entry(p) == p.id \o <<"=">> \o encodeURIComponent(JSONstringify(p))

\* The outcome of evaluating the right-hand side of the assignment in save.
EntryOf(arg) ==
    IF arg.kind = "project" THEN Ok(Entry(arg.p)) ELSE Throw

\* The catch block of save reads project.id for its message.
SaveCatch(arg) == IF arg.kind = "null" THEN Throw ELSE Ok(JUndefined)

---------------------------------------------------------------------------
(* CookieStorage                                                           *)

\* A save that stores the JSON text without encodeURIComponent.
CookieSaveRaw(jar, arg) ==
    IF arg.kind # "project" THEN [out |-> SaveCatch(arg), jar |-> jar]
    ELSE [out |-> Ok(JUndefined),
          jar |-> SetCookie(jar, arg.p.id \o <<"=">> \o JSONstringify(arg.p) \o <<";">>)]

\* CookieStorage.save: the outcome and the jar afterwards.
CookieSave(jar, arg) ==
    CHOOSE r \in {
        IF e.st = "throw" THEN [out |-> SaveCatch(arg), jar |-> jar]
        ELSE [out |-> Ok(JUndefined), jar |-> SetCookie(jar, e.v \o <<";">>)] :
        e \in {EntryOf(arg)} } : TRUE

\* JSON.parse(decodeURIComponent(row.split('=')[1]))
DecodeRow(row) ==
    LET d == decodeURIComponent(SecondPiece(row))
    IN  IF d.st = "throw" THEN Throw ELSE JSONparse(d.v)

\* A try block whose catch raises the error again.
TryRethrow(body, fallback) == body

\* try { body } catch (error) { console.error(...); return fallback; }
TryCatch(body, fallback) == IF body.st = "throw" THEN Ok(fallback) ELSE body

\* The row find() selects for projectId among rows: row.startsWith(projectId).
FindRow(rows, projectId) == Find(rows, LAMBDA row : StartsWith(row, projectId))

\* projectRow ? JSON.parse(...) : null, a row being truthy when non-empty.
LoadFrom(rows, projectId) ==
    LET hit == FindRow(rows, projectId)
    IN  IF hit.found /\ hit.row # <<>> THEN DecodeRow(hit.row) ELSE Ok(JNull)

\* CookieStorage.load
CookieLoad(jar, projectId) ==
    TryCatch(LoadFrom(Split(GetCookie(jar), <<";", " ">>), projectId), JNull)

\* rows.map(row => JSON.parse(...)): an exception in any row ends the map.
MapDecode(rows) ==
    LET each == [i \in 1..Len(rows) |-> DecodeRow(rows[i])]
    IN  IF \E i \in 1..Len(rows) : each[i].st = "throw" THEN Throw
        ELSE Ok(JArr([i \in 1..Len(rows) |-> each[i].v]))

\* A listAll without its try/catch.
CookieListAllNoCatch(jar) == MapDecode(Split(GetCookie(jar), <<";", " ">>))

\* A listAll that decodes the first cookie only.
CookieListAllFirst(jar) ==
    TryCatch(MapDecode(SubSeq(Split(GetCookie(jar), <<";", " ">>), 1, 1)), JArr(<<>>))

\* CookieStorage.listAll
CookieListAll(jar) ==
    TryCatch(MapDecode(Split(GetCookie(jar), <<";", " ">>)), JArr(<<>>))

---------------------------------------------------------------------------
(* UriStorage                                                              *)

\* UriStorage.save: the outcome and the fragment afterwards.
UriSave(frag, arg) ==
    CHOOSE r \in {
        IF e.st = "throw" THEN [out |-> SaveCatch(arg), frag |-> frag]
        ELSE [out |-> Ok(JUndefined), frag |-> SetHash(e.v)] :
        e \in {EntryOf(arg)} } : TRUE

\* UriStorage.load
UriLoad(frag, projectId) ==
    TryCatch(LoadFrom(Split(Substr1(GetHash(frag)), <<"&">>), projectId), JNull)

\* A listAll body that takes the last pair containing '=' instead of the
\* first.
UriListBodyLast(frag) ==
    LET rows    == Split(Substr1(GetHash(frag)), <<"&">>)
        back    == [i \in 1..Len(rows) |-> rows[Len(rows) + 1 - i]]
        hit     == Find(back, LAMBDA row : Includes(row, <<"=">>))
        project == IF hit.found /\ hit.row # <<>> THEN DecodeRow(hit.row) ELSE Ok(JNull)
    IN  IF project.st = "throw" THEN Throw
        ELSE IF Truthy(project.v) THEN Ok(JArr(<<project.v>>))
        ELSE Ok(JArr(<<>>))

\* The body of UriStorage.listAll's try block.
UriListBody(frag) ==
    LET rows    == Split(Substr1(GetHash(frag)), <<"&">>)
        hit     == Find(rows, LAMBDA row : Includes(row, <<"=">>))
        project == IF hit.found /\ hit.row # <<>> THEN DecodeRow(hit.row) ELSE Ok(JNull)
    IN  IF project.st = "throw" THEN Throw
        ELSE IF Truthy(project.v) THEN Ok(JArr(<<project.v>>))
        ELSE Ok(JArr(<<>>))

\* UriStorage.listAll
UriListAll(frag) == TryCatch(UriListBody(frag), JArr(<<>>))

---------------------------------------------------------------------------
(* StorageModule                                                           *)

\* backend.listAll() for the backend named b.
ListAllOf(b, jar, frag) ==
    IF b = "cookie" THEN CookieListAll(jar) ELSE UriListAll(frag)

\* backend.load(id) for the backend named b.
LoadOf(b, jar, frag, id) ==
    IF b = "cookie" THEN CookieLoad(jar, id) ELSE UriLoad(frag, id)

\* A save that writes past its own medium: the cookie backend clears the
\* fragment, the fragment backend clears the jar.
SaveOfShared(b, jar, frag, arg) ==
    IF b = "cookie"
    THEN CHOOSE s \in { [out |-> r.out, jar |-> r.jar, frag |-> <<>>] :
                        r \in {CookieSave(jar, arg)} } : TRUE
    ELSE CHOOSE s \in { [out |-> r.out, jar |-> <<>>, frag |-> r.frag] :
                        r \in {UriSave(frag, arg)} } : TRUE

\* backend.save(project) for the backend named b: outcome and both media.
SaveOf(b, jar, frag, arg) ==
    IF b = "cookie"
    THEN CHOOSE s \in { [out |-> r.out, jar |-> r.jar, frag |-> frag] :
                        r \in {CookieSave(jar, arg)} } : TRUE
    ELSE CHOOSE s \in { [out |-> r.out, jar |-> jar, frag |-> r.frag] :
                        r \in {UriSave(frag, arg)} } : TRUE

\* Two listed values carrying the same project id.
SameId(v, w) ==
    /\ v[1] = "obj" /\ w[1] = "obj"
    /\ KId \in DOMAIN v[2] /\ KId \in DOMAIN w[2]
    /\ v[2][KId] = w[2][KId]

\* A merge that keeps only the first project listed under each id.
ConcatAllDedup(each) ==
    LET all == Flatten([i \in 1..Len(each) |-> each[i].v[2]])
    IN  Flatten([i \in 1..Len(all) |->
                    IF \E j \in 1..(i - 1) : SameId(all[j], all[i])
                    THEN <<>> ELSE <<all[i]>>])

\* projects.concat(...) over the listAll results each, in their order.
ConcatAll(each) == Flatten([i \in 1..Len(each) |-> each[i].v[2]])

\* StorageModule.listProjects: the forEach over the backends bs; a listAll
\* that raised would end it.
listProjects(bs, jar, frag) ==
    LET each == [i \in 1..Len(bs) |-> ListAllOf(bs[i], jar, frag)]
    IN  IF \E i \in 1..Len(bs) : each[i].st = "throw" THEN Throw
        ELSE Ok(JArr(ConcatAll(each)))

\* Where fetchProject's loop ends: at the first backend whose load raised
\* or returned a truthy value; 0 when it runs through.
FetchStop(each) ==
    LET stops == {i \in 1..Len(each) : each[i].st = "throw" \/ Truthy(each[i].v)}
    IN  IF stops = {} THEN 0 ELSE CHOOSE i \in stops : \A j \in stops : i =< j

\* StorageModule.fetchProject
fetchProject(bs, jar, frag, id) ==
    LET each == [i \in 1..Len(bs) |-> LoadOf(bs[i], jar, frag, id)]
        stop == FetchStop(each)
    IN  IF stop = 0 THEN Ok(JNull) ELSE each[stop]

\* A turn without the try/catch around backend.save.
SaveStepNoCatch(b, jar, frag, arg) ==
    CHOOSE s \in {
        [out |-> r.out, raised |-> r.out.st = "throw",
         jar |-> r.jar, frag |-> r.frag] : r \in {SaveOf(b, jar, frag, arg)} } : TRUE

\* One turn of saveProject's forEach: try { backend.save(project) } catch.
\* raised tells whether backend.save raised.
SaveStep(b, jar, frag, arg) ==
    CHOOSE s \in {
        [out |-> TryCatch(r.out, JUndefined), raised |-> r.out.st = "throw",
         jar |-> r.jar, frag |-> r.frag] : r \in {SaveOf(b, jar, frag, arg)} } : TRUE

\* A saveProject that saves to the first backend of the list only.
SaveTurnsFirst(bs, jar, frag, arg) ==
    IF bs = <<>>
    THEN [out |-> Ok(JUndefined), jar |-> jar, frag |-> frag, calls |-> <<>>]
    ELSE CHOOSE s \in {
             [out |-> r.out, jar |-> r.jar, frag |-> r.frag,
              calls |-> <<[b |-> bs[1], raised |-> r.raised]>>] :
             r \in {SaveStep(bs[1], jar, frag, arg)} } : TRUE

\* The forEach of saveProject: the state after k turns over the backends
\* bs. calls lists the save invocations made; an exception leaving a turn
\* ends the forEach.
SaveTurns(bs, jar, frag, arg) ==
    LET turn[k \in 0..Len(bs)] ==
            IF k = 0
            THEN [out |-> Ok(JUndefined), jar |-> jar, frag |-> frag, calls |-> <<>>]
            ELSE CHOOSE after \in {
                     IF before.out.st = "throw" THEN before
                     ELSE CHOOSE s \in {
                              [out |-> r.out, jar |-> r.jar, frag |-> r.frag,
                               calls |-> Append(before.calls,
                                                [b |-> bs[k], raised |-> r.raised])] :
                              r \in {SaveStep(bs[k], before.jar, before.frag, arg)} } : TRUE :
                     before \in {turn[k - 1]} } : TRUE
    IN  turn[Len(bs)]

\* StorageModule.saveProject
saveProject(bs, jar, frag, arg) == SaveTurns(bs, jar, frag, arg)

---------------------------------------------------------------------------
(* Inputs                                                                  *)

\* The most cookies the jar is let to hold.
MaxCookies == 2

IdA == <<"a">>

IdAB == <<"a", "b">>

IdT == <<"t">>

Ids == {IdA, IdAB}

PA1 == Project(IdA, <<"x">>, <<>>)

PA2 == Project(IdA, <<"\"", "=", "\\">>, <<Version(<<"h">>, 10)>>)

PAB == Project(IdAB, <<"%", ";", "&", " ">>, <<>>)

\* The valid projects saved: non-empty ids free of ';', '=', '&'.
Projects == {PA1, PA2, PAB}

Args == {Arg("project", p) : p \in Projects}
            \cup {Arg("cyclic", PA1), Arg("null", Project(<<>>, <<>>, <<>>))}

NoArg == Arg("none", Project(<<>>, <<>>, <<>>))

\* The ids looked up: the saved ones, the empty string, one never saved.
ReadIds == Ids \cup {<<>>, IdT}

BackendNames == {"cookie", "uri"}

\* The backend lists a StorageModule is constructed with; the shipped one
\* is <<"cookie", "uri">>.
Configs == {<<>>, <<"cookie", "uri">>, <<"uri", "cookie">>}

\* Cookies other code of the page sets on the same jar.
ForeignCookies ==
    { <<"a", "=", "%">>, <<"a", "=", "0">>, <<"t", "=", "x">>,
      <<"t", "=", "1", "=", "x">> }

\* Fragments the page is opened with, not written by save.
ForeignFragments ==
    { <<"a", "=", "%">>, <<"a", "=", "0">>,
      <<"b", "&">> \o Entry(PA1) \o <<"&", "b", "=", "%">> }

---------------------------------------------------------------------------
(* The state machine                                                       *)

VARIABLES
    cookies,    \* the cookie jar behind document.cookie
    fragment,   \* the fragment behind window.location.hash
    backends,   \* StorageModule.backends
    last,       \* the last operation: its name, arguments and outcome
    saved       \* what CookieStorage.save was given since the empty jar

vars == <<cookies, fragment, backends, last, saved>>

\* The record of the cookie saves: log holds the valid projects given to
\* CookieStorage.save, the latest one of each id, in the order of those
\* latest saves; foreign tells that other code has written the jar since.
NoSaves == [foreign |-> FALSE, log |-> <<>>]

\* The record after CookieStorage.save was given the valid project p.
Logged(s, p) ==
    IF s.foreign THEN s
    ELSE [foreign |-> FALSE,
          log |-> SelectSeq(s.log, LAMBDA q : q.id # p.id) \o <<p>>]

\* The record after backend b was given arg.
LoggedSave(s, b, arg) ==
    IF b = "cookie" /\ arg.kind = "project" THEN Logged(s, arg.p) ELSE s

Op(op, b, id, arg, ret, calls) ==
    [op |-> op, b |-> b, id |-> id, arg |-> arg, ret |-> ret, calls |-> calls]

Init ==
    /\ cookies = <<>>
    /\ fragment = <<>>
    /\ backends \in Configs
    /\ last = Op("new", "none", <<>>, NoArg, Ok(JUndefined), <<>>)
    /\ saved = NoSaves

\* backend.save(project) called on one backend.
Save(b, arg) ==
    \E r \in {SaveOf(b, cookies, fragment, arg)} :
        /\ Len(r.jar) =< MaxCookies
        /\ cookies' = r.jar
        /\ fragment' = r.frag
        /\ last' = Op("save", b, <<>>, arg, r.out, <<>>)
        /\ saved' = LoggedSave(saved, b, arg)
        /\ UNCHANGED backends

\* A load that clears the medium it has read.
LoadConsuming(b, id) ==
    /\ last' = Op("load", b, id, NoArg, LoadOf(b, cookies, fragment, id), <<>>)
    /\ cookies' = IF b = "cookie" THEN <<>> ELSE cookies
    /\ fragment' = IF b = "uri" THEN <<>> ELSE fragment
    /\ UNCHANGED <<backends, saved>>

\* backend.load(projectId) called on one backend.
Load(b, id) ==
    /\ last' = Op("load", b, id, NoArg, LoadOf(b, cookies, fragment, id), <<>>)
    /\ UNCHANGED <<cookies, fragment, backends, saved>>

\* backend.listAll() called on one backend, as loadProjects does.
ListAll(b) ==
    /\ last' = Op("listAll", b, <<>>, NoArg, ListAllOf(b, cookies, fragment), <<>>)
    /\ UNCHANGED <<cookies, fragment, backends, saved>>

SaveProject(arg) ==
    \E r \in {saveProject(backends, cookies, fragment, arg)} :
        /\ Len(r.jar) =< MaxCookies
        /\ cookies' = r.jar
        /\ fragment' = r.frag
        /\ last' = Op("saveProject", "none", <<>>, arg, r.out, r.calls)
        /\ saved' = IF \E k \in 1..Len(r.calls) : r.calls[k].b = "cookie"
                     THEN LoggedSave(saved, "cookie", arg) ELSE saved
        /\ UNCHANGED backends

FetchProject(id) ==
    /\ last' = Op("fetchProject", "none", id, NoArg,
                  fetchProject(backends, cookies, fragment, id), <<>>)
    /\ UNCHANGED <<cookies, fragment, backends, saved>>

ListProjects ==
    /\ last' = Op("listProjects", "none", <<>>, NoArg,
                  listProjects(backends, cookies, fragment), <<>>)
    /\ UNCHANGED <<cookies, fragment, backends, saved>>

\* Other code of the page sets a cookie.
ForeignCookie(text) ==
    /\ Len(SetCookie(cookies, text)) =< MaxCookies
    /\ cookies' = SetCookie(cookies, text)
    /\ last' = Op("foreign", "cookie", <<>>, NoArg, Ok(JUndefined), <<>>)
    /\ saved' = [foreign |-> TRUE, log |-> <<>>]
    /\ UNCHANGED <<fragment, backends>>

\* The page is opened with a fragment of its own.
Navigate(frag) ==
    /\ fragment' = frag
    /\ last' = Op("foreign", "uri", <<>>, NoArg, Ok(JUndefined), <<>>)
    /\ UNCHANGED <<cookies, backends, saved>>

\* What reaches the media: saves on either backend and foreign content.
Writes ==
    \/ \E b \in BackendNames, arg \in Args : Save(b, arg)
    \/ \E text \in ForeignCookies : ForeignCookie(text)
    \/ \E frag \in ForeignFragments : Navigate(frag)

\* The backends called one at a time.
NextBackends ==
    \/ Writes
    \/ \E b \in BackendNames, id \in ReadIds : Load(b, id)
    \/ \E b \in BackendNames : ListAll(b)

\* The aggregator called, the backends being saved to as well.
NextModule ==
    \/ Writes
    \/ \E arg \in Args : SaveProject(arg)
    \/ \E id \in ReadIds : FetchProject(id)
    \/ ListProjects

Next ==
    \/ Writes
    \/ \E b \in BackendNames, id \in ReadIds : Load(b, id)
    \/ \E b \in BackendNames : ListAll(b)
    \/ \E arg \in Args : SaveProject(arg)
    \/ \E id \in ReadIds : FetchProject(id)
    \/ ListProjects

\* Every operation, for every backend list.
Spec == Init /\ [][Next]_vars

\* The backend operations, under the shipped backend list.
InitShipped == Init /\ backends = <<"cookie", "uri">>

SpecBackends == InitShipped /\ [][NextBackends]_vars

\* Every operation, under the shipped backend list.
SpecShipped == InitShipped /\ [][Next]_vars

\* The aggregator operations, for every backend list.
SpecModule == Init /\ [][NextModule]_vars

\* The shipped page on media nothing else writes: saveProject of a valid
\* project is the only write, next to every read.
NextApp ==
    \/ \E p \in Projects : SaveProject(Arg("project", p))
    \/ \E b \in BackendNames, id \in ReadIds : Load(b, id)
    \/ \E b \in BackendNames : ListAll(b)
    \/ \E id \in ReadIds : FetchProject(id)
    \/ ListProjects

SpecApp == InitShipped /\ [][NextApp]_vars

---------------------------------------------------------------------------
(* What the media hold                                                     *)

\* The value save stores for p.
Stored(p) == encodeURIComponent(JSONstringify(p))

\* The jar holds p under its id.
CookieHolds(jar, p) ==
    \E i \in 1..Len(jar) : jar[i] = [name |-> p.id, value |-> Stored(p)]

\* The fragment holds p (and nothing else).
UriHolds(frag, p) == frag = p.id \o <<"=">> \o Stored(p)

Holds(b, jar, frag, p) ==
    IF b = "cookie" THEN CookieHolds(jar, p) ELSE UriHolds(frag, p)

\* Both media hold only what saves of valid projects left there.
SavedOnly ==
    /\ \A i \in 1..Len(cookies) : \E p \in Projects :
           cookies[i] = [name |-> p.id, value |-> Stored(p)]
    /\ fragment = <<>> \/ \E p \in Projects : UriHolds(fragment, p)

\* The key of a row: its text before the first '=' (none without '=').
HasKeyRow(row, id) ==
    /\ IndexOf(row, "=") > 0
    /\ SubSeq(row, 1, IndexOf(row, "=") - 1) = id

\* Backend b holds an entry whose key is exactly id.
HasKey(b, jar, frag, id) ==
    IF b = "cookie" THEN \E i \in 1..Len(jar) : jar[i].name = id
    ELSE \E row \in {r \in {Split(frag, <<"&">>)[k] : k \in 1..Len(Split(frag, <<"&">>))} : TRUE} :
            HasKeyRow(row, id)

\* A value that is a project: an object with the three fields.
IsProjectValue(v) == v[1] = "obj" /\ DOMAIN v[2] = {KId, KData, KVersions}

---------------------------------------------------------------------------
(* Claims                                                                  *)

\* C1: on each backend, load(P.id) right after save(P) of a valid project P
\* returns a value deep-equal to P, in every medium state reached by saves
\* of valid projects.
C1_RoundTrip ==
    (last.op = "save" /\ last.arg.kind = "project" /\ SavedOnly)
        => LoadOf(last.b, cookies, fragment, last.arg.p.id)
               = Ok(ProjectValue(last.arg.p))

\* C2: with backends [A, B] holding different projects under the same id,
\* fetchProject(id) returns A's copy.
C2_FallbackOrder ==
    (last.op = "fetchProject" /\ Len(backends) = 2 /\ SavedOnly)
        => \A p, q \in Projects :
               ( /\ p # q /\ p.id = last.id /\ q.id = last.id
                 /\ Holds(backends[1], cookies, fragment, p)
                 /\ Holds(backends[2], cookies, fragment, q) )
               => last.ret = Ok(ProjectValue(p))

\* C3: fetchProject(id) returns null when no backend of the list holds an
\* entry whose key is exactly id (stated for the non-empty ids).
C3_Absence ==
    ( /\ last.op = "fetchProject" /\ last.id # <<>>
      /\ \A i \in 1..Len(backends) : ~HasKey(backends[i], cookies, fragment, last.id) )
        => last.ret = Ok(JNull)

\* C4: on the fragment backend, save(P1) followed by save(P2) with another
\* id leaves load(P1.id) absent and load(P2.id) equal to P2.
C4_FragmentSingleSlot ==
    [][ ( /\ last.op = "save" /\ last.b = "uri" /\ last.arg.kind = "project"
          /\ last'.op = "save" /\ last'.b = "uri" /\ last'.arg.kind = "project"
          /\ last.arg.p.id # last'.arg.p.id )
        => ( /\ UriLoad(fragment', last.arg.p.id) = Ok(JNull)
             /\ UriLoad(fragment', last'.arg.p.id) = Ok(ProjectValue(last'.arg.p)) )
      ]_vars

\* C5: listProjects() is the concatenation, in backend order, of every
\* backend's listAll(); two backends holding one project each under the same
\* id give a result of length 2.
C5_MergeWithoutDedup ==
    last.op = "listProjects" =>
        LET parts == [i \in 1..Len(backends) |->
                        ListAllOf(backends[i], cookies, fragment).v[2]]
            off[i \in 1..Len(backends)] ==
                IF i = 1 THEN 0 ELSE off[i - 1] + Len(parts[i - 1])
            total == IF backends = <<>> THEN 0
                     ELSE off[Len(backends)] + Len(parts[Len(backends)])
        IN  /\ last.ret.st = "ok"
            /\ Len(last.ret.v[2]) = total
            /\ \A i \in 1..Len(backends) : \A k \in 1..Len(parts[i]) :
                   last.ret.v[2][off[i] + k] = parts[i][k]
            /\ ( /\ Len(cookies) = 1 /\ Len(backends) = 2
                 /\ \E p, q \in Projects :
                        p.id = q.id /\ CookieHolds(cookies, p) /\ UriHolds(fragment, q) )
               => Len(last.ret.v[2]) = 2

\* C5 witness: both backends hold one project, different ones under the same
\* id, and listProjects returned both.
C5_Witness ==
    /\ last.op = "listProjects" /\ Len(backends) = 2 /\ Len(cookies) = 1
    /\ \E p, q \in Projects :
           p # q /\ p.id = q.id /\ CookieHolds(cookies, p) /\ UriHolds(fragment, q)
    /\ Len(last.ret.v[2]) = 2

\* C6: saveProject(P) calls save once on every backend, in list order,
\* whether a save fails silently or raises, and returns normally.
C6_PartialSaveResilience ==
    last.op = "saveProject" =>
        /\ last.ret = Ok(JUndefined)
        /\ Len(last.calls) = Len(backends)
        /\ \A i \in 1..Len(backends) : last.calls[i].b = backends[i]

\* C6 witness: the first of two backends raised and the second was still
\* called.
C6_Witness ==
    /\ last.op = "saveProject" /\ Len(backends) = 2
    /\ Len(last.calls) = 2 /\ last.calls[1].raised
    /\ last.ret = Ok(JUndefined)

\* The rows of a backend's medium, as its operations split it.
Rows(b, jar, frag) ==
    IF b = "cookie" THEN Split(GetCookie(jar), <<";", " ">>)
    ELSE Split(Substr1(GetHash(frag)), <<"&">>)

\* The medium of b contains data that does not decode.
ContainsMalformed(b, jar, frag) ==
    \E rows \in {Rows(b, jar, frag)} : \E i \in 1..Len(rows) :
        rows[i] # <<>> /\ DecodeRow(rows[i]).st = "throw"

\* The data listAll of b decodes does not decode: any cookie of the jar; the
\* first pair of the fragment that contains '='.
DecodesMalformed(b, jar, frag) ==
    IF b = "cookie" THEN ContainsMalformed(b, jar, frag)
    ELSE \E rows \in {Rows(b, jar, frag)} : \E i \in 1..Len(rows) :
            /\ Includes(rows[i], <<"=">>)
            /\ \A j \in 1..(i - 1) : ~Includes(rows[j], <<"=">>)
            /\ DecodeRow(rows[i]).st = "throw"

\* listProjects completed and holds every project any backend lists.
ListsEveryBackend ==
    /\ last.ret.st = "ok"
    /\ \A i \in 1..Len(backends) :
           \A r \in {ListAllOf(backends[i], cookies, fragment)} :
               \A k \in 1..Len(r.v[2]) :
                   \E n \in 1..Len(last.ret.v[2]) : last.ret.v[2][n] = r.v[2][k]

C8_ExactKey ==
    (last.op = "load" /\ last.id # <<>> /\ SavedOnly /\ IsProjectValue(last.ret.v))
        => last.ret.v[2][KId] = JStr(last.id)

\* The entry keyed id in the medium of b has a value that does not decode.
EntryMalformed(b, jar, frag, id) ==
    \E rows \in {Rows(b, jar, frag)} : \E i \in 1..Len(rows) :
        /\ HasKeyRow(rows[i], id)
        /\ \E d \in {decodeURIComponent(
                        SubSeq(rows[i], IndexOf(rows[i], "=") + 1, Len(rows[i])))} :
               d.st = "throw" \/ JSONparse(d.v).st = "throw"

\* C9: load(id) never raises, and returns null when the entry for id has
\* malformed percent-encoding or malformed JSON.
C9_SoftFailureLoad ==
    (last.op = "load" /\ last.id # <<>>) =>
        /\ last.ret.st = "ok"
        /\ EntryMalformed(last.b, cookies, fragment, last.id) => last.ret = Ok(JNull)

\* C10: a cookie save of P leaves exactly one cookie named P.id, whose value
\* decodes to P, and leaves every cookie of another name as it was.
C10_CookieOverwrite ==
    [][ (last'.op = "save" /\ last'.b = "cookie" /\ last'.arg.kind = "project") =>
          \A p \in {last'.arg.p} :
            /\ Cardinality({i \in 1..Len(cookies') : cookies'[i].name = p.id}) = 1
            /\ \A i \in 1..Len(cookies') :
                 IF cookies'[i].name = p.id
                 THEN \E d \in {decodeURIComponent(cookies'[i].value)} :
                          d.st = "ok" /\ JSONparse(d.v) = Ok(ProjectValue(p))
                 ELSE i =< Len(cookies) /\ cookies'[i] = cookies[i]
            /\ \A i \in 1..Len(cookies) :
                 cookies[i].name # p.id => (i =< Len(cookies') /\ cookies'[i] = cookies[i])
      ]_vars

\* C10 witness: a cookie save replaced the copy under its id next to a
\* cookie of another name.
C10_Witness ==
    /\ last.op = "save" /\ last.b = "cookie" /\ last.arg.kind = "project"
    /\ Len(cookies) = 2
    /\ cookies[1].name = last.arg.p.id
    /\ cookies[2].name # last.arg.p.id

\* C11: after saves on the cookie backend alone, starting from the empty
\* jar, listAll() of the cookie backend returns one project for each saved
\* id, equal to the project saved last under that id, and nothing else.
C11_CookieListingComplete ==
    (last.op = "listAll" /\ last.b = "cookie" /\ ~saved.foreign) =>
        /\ last.ret.st = "ok"
        /\ Len(last.ret.v[2]) = Len(saved.log)
        /\ \A i \in 1..Len(saved.log) :
               Cardinality({k \in 1..Len(last.ret.v[2]) :
                               last.ret.v[2][k] = ProjectValue(saved.log[i])}) = 1

\* C11 witness: two ids were saved, the first one again after the second,
\* and listAll listed both.
C11_Witness ==
    /\ last.op = "listAll" /\ last.b = "cookie" /\ ~saved.foreign
    /\ Len(saved.log) = 2 /\ Len(cookies) = 2
    /\ cookies[1].name = saved.log[2].id
    /\ Len(last.ret.v[2]) = 2

\* The value of cookie c is not decodable JSON.
ValueMalformed(c) ==
    \E d \in {decodeURIComponent(c.value)} :
        d.st = "throw" \/ JSONparse(d.v).st = "throw"

\* C12: when at least one cookie of the jar has a value that is not
\* decodable JSON, listAll() of the cookie backend returns the empty
\* sequence.
C12_CookieAllOrNothing ==
    ( /\ last.op = "listAll" /\ last.b = "cookie"
      /\ \E i \in 1..Len(cookies) : ValueMalformed(cookies[i]) )
        => last.ret = Ok(JArr(<<>>))

\* The positions of the first pair of rows that contains '=' (none or one).
FirstPair(rows) ==
    {i \in 1..Len(rows) :
        Includes(rows[i], <<"=">>) /\ \A j \in 1..(i - 1) : ~Includes(rows[j], <<"=">>)}

\* C13: for every fragment, listAll() of the fragment backend returns a
\* sequence of length 0 or 1; with length 1 its element is what the first
\* '&'-separated pair containing '=' decodes to, and that pair is listed
\* whenever it decodes to a project; right after save(P) listAll() is [P].
C13_FragmentListsAtMostOne ==
    /\ (last.op = "listAll" /\ last.b = "uri") =>
          \E rows \in {Rows("uri", cookies, fragment)} :
            /\ last.ret.st = "ok"
            /\ Len(last.ret.v[2]) =< 1
            /\ Len(last.ret.v[2]) = 1 =>
                  \E i \in FirstPair(rows) : DecodeRow(rows[i]) = Ok(last.ret.v[2][1])
            /\ \A i \in FirstPair(rows) : \A d \in {DecodeRow(rows[i])} :
                  (d.st = "ok" /\ IsProjectValue(d.v)) => last.ret = Ok(JArr(<<d.v>>))
    /\ (last.op = "save" /\ last.b = "uri" /\ last.arg.kind = "project") =>
          UriListAll(fragment) = Ok(JArr(<<ProjectValue(last.arg.p)>>))

\* C13 witness: the fragment holds several pairs, the first one without
\* '=', and listAll listed the project of the first pair containing '='.
C13_Witness ==
    /\ last.op = "listAll" /\ last.b = "uri"
    /\ Len(Rows("uri", cookies, fragment)) = 3
    /\ FirstPair(Rows("uri", cookies, fragment)) = {2}
    /\ last.ret = Ok(JArr(<<ProjectValue(PA1)>>))

\* The medium of backend b is empty: no cookie, no fragment.
EmptyMedium(b) == IF b = "cookie" THEN cookies = <<>> ELSE fragment = <<>>

\* C14: on an empty medium load(id) returns null for every id, the empty
\* string included, and listAll() returns the empty sequence; with every
\* medium empty fetchProject(id) returns null and listProjects() the empty
\* sequence.
C14_EmptyMedium ==
    /\ (last.op = "load" /\ EmptyMedium(last.b)) => last.ret = Ok(JNull)
    /\ (last.op = "listAll" /\ EmptyMedium(last.b)) => last.ret = Ok(JArr(<<>>))
    /\ (last.op = "fetchProject" /\ \A b \in BackendNames : EmptyMedium(b))
           => last.ret = Ok(JNull)
    /\ (last.op = "listProjects" /\ \A b \in BackendNames : EmptyMedium(b))
           => last.ret = Ok(JArr(<<>>))

\* C14 witness: the empty string was looked up on an empty medium next to
\* a medium that holds a project.
C14_Witness ==
    /\ last.op = "load" /\ last.id = <<>> /\ EmptyMedium(last.b)
    /\ \E b \in BackendNames : ~EmptyMedium(b)
    /\ last.ret = Ok(JNull)

\* In this step every cookie whose name is not id stays as and where it was.
OtherCookiesKept(id) ==
    /\ \A i \in 1..Len(cookies) :
           cookies[i].name # id => (i =< Len(cookies') /\ cookies'[i] = cookies[i])
    /\ \A i \in 1..Len(cookies') :
           cookies'[i].name # id => (i =< Len(cookies) /\ cookies'[i] = cookies[i])

\* C15: a save on the cookie backend leaves the fragment unchanged and a
\* save on the fragment backend leaves the jar unchanged; saveProject(P)
\* with the shipped backends changes no cookie but the one named P.id and
\* replaces the fragment by the one entry of P.
C15_BackendIsolation ==
    [][ /\ (last'.op = "save" /\ last'.b = "cookie") => fragment' = fragment
        /\ (last'.op = "save" /\ last'.b = "uri") => cookies' = cookies
        /\ (last'.op = "save" /\ last'.b = "cookie" /\ last'.arg.kind = "project")
               => OtherCookiesKept(last'.arg.p.id)
        /\ (last'.op = "saveProject" /\ last'.arg.kind = "project") =>
               /\ OtherCookiesKept(last'.arg.p.id)
               /\ CookieHolds(cookies', last'.arg.p)
               /\ UriHolds(fragment', last'.arg.p)
      ]_vars

\* C15 witness: saveProject(P) was called while the jar held a cookie of
\* another name, which is still there, and the fragment holds P alone.
C15_Witness ==
    /\ last.op = "saveProject" /\ last.arg.kind = "project"
    /\ \E i \in 1..Len(cookies) : cookies[i].name # last.arg.p.id
    /\ CookieHolds(cookies, last.arg.p)
    /\ UriHolds(fragment, last.arg.p)

\* The operations that read: load and listAll of a backend, fetchProject
\* and listProjects of the aggregator.
ReadOps == {"load", "listAll", "fetchProject", "listProjects"}

\* C16: load, listAll, fetchProject and listProjects leave the jar, the
\* fragment and the backend list unchanged, whether they succeed or fail
\* softly; of the program's operations only save and saveProject change a
\* medium.
C16_ReadsAreSideEffectFree ==
    [][ /\ last'.op \in ReadOps =>
               (cookies' = cookies /\ fragment' = fragment /\ backends' = backends)
        /\ (cookies' # cookies \/ fragment' # fragment) =>
               last'.op \in {"save", "saveProject", "foreign"}
        /\ backends' = backends
      ]_vars

\* C16 witness: a load failed softly on a malformed entry and the medium
\* still holds it.
C16_Witness ==
    /\ last.op = "load" /\ last.id # <<>>
    /\ EntryMalformed(last.b, cookies, fragment, last.id)
    /\ last.ret = Ok(JNull)

\* C17: with the shipped backends and only saveProject writing the media,
\* fetchProject(P.id) right after saveProject(P) of a valid project P
\* returns a value deep-equal to P.
C17_AggregatorRoundTrip ==
    (last.op = "saveProject" /\ last.arg.kind = "project") =>
        fetchProject(backends, cookies, fragment, last.arg.p.id)
            = Ok(ProjectValue(last.arg.p))

\* The listed value v is an object whose id is id.
HasId(v, id) == v[1] = "obj" /\ KId \in DOMAIN v[2] /\ v[2][KId] = JStr(id)

\* C18: with the shipped backends, the media empty at first and only
\* saveProject writing them, after at least one saveProject the fragment
\* holds exactly the project saved last and the jar holds an equal copy
\* under its id; listProjects() then has one element more than there are
\* distinct saved ids, and the id saved last is listed exactly twice.
C18_BroadcastInvariant ==
    saved.log # <<>> =>
        \A p \in {saved.log[Len(saved.log)]} :
            /\ UriHolds(fragment, p)
            /\ CookieHolds(cookies, p)
            /\ last.op = "listProjects" =>
                  /\ last.ret.st = "ok"
                  /\ Len(last.ret.v[2]) = Len(saved.log) + 1
                  /\ Cardinality({k \in 1..Len(last.ret.v[2]) :
                                     HasId(last.ret.v[2][k], p.id)}) = 2
                  /\ \A k \in 1..Len(last.ret.v[2]) :
                         HasId(last.ret.v[2][k], p.id)
                             => last.ret.v[2][k] = ProjectValue(p)

\* C18 witness: two ids were saved, the first one again after the second,
\* and listProjects listed three projects.
C18_Witness ==
    /\ last.op = "listProjects"
    /\ Len(saved.log) = 2 /\ Len(cookies) = 2
    /\ cookies[1].name = saved.log[2].id
    /\ Len(last.ret.v[2]) = 3

=============================================================================
